---- MODULE Spec2Model ----
(***************************************************************************)
(* State-machine model of the editor-pdf web client: the edit list kept by *)
(* App.tsx, the page viewer of PdfViewer.tsx and the export client of      *)
(* api.ts.  Coordinates are PDF points on a grid of 1/Unit point, a text   *)
(* is the sequence of its characters.                                      *)
(***************************************************************************)
EXTENDS Integers, Sequences, FiniteSets, TLC

VARIABLES
    docInfo,        \* App: useState<DocumentInfo | null>
    uploading,      \* App: useState(false)
    exporting,      \* App: useState(false)
    currentPage,    \* App: useState(0)
    edits,          \* App: useState<EditOperation[]>([])
    toasts,         \* App: useState<Toast[]>([]), the type of each toast
    editCounter,    \* PdfViewer module: let _editCounter = 0
    pdfDoc,         \* PdfViewer: useState<PDFDocumentProxy | null>
    pageText,       \* PdfViewer: useState<PageText | null>
    loadedFonts,    \* PdfViewer: useState<Set<string>>(new Set())
    editingSpan,    \* PdfViewer: useState<TextSpan | null>
    editValue,      \* PdfViewer: useState("")
    editingInView,  \* PdfViewer: editingSpan === span for a span of pageText.spans
    rendering,      \* PdfViewer: the live render effect has not reached getPageText yet
    textReqs,       \* PdfViewer: the getPageText calls in flight, per page
    fontsPc,        \* PdfViewer: where loadFonts stands
    fontQueue,      \* PdfViewer: the names loadFonts' for loop has still to visit
    exportReqs,     \* the export requests in flight: the body of each
    download,       \* the file the last finished export handed to the browser (a.click())
    exportLog,      \* what the last click on the export button led to
    submitted,      \* the sequence of edits submitted to handleAddEdit so far
    zoom,           \* App: useState(1.5), in steps of a quarter
    fit,            \* core: the auto-fit layout of one overlay
    registry,       \* core: the font registry of the document
    pipeline        \* core: the export pipeline of one request

(* ---------------------------- bounds ----------------------------------- *)

\* grid resolution: coordinate units per PDF point
Unit == 2
\* cap on _editCounter (number of edits ever submitted)
MaxKeys == 3
\* cap on the toasts shown at once
MaxToasts == 1
\* cap on _editCounter where the export is explored
MaxExportKeys == 2
\* cap on _editCounter where the viewer is explored
MaxSessionKeys == 1
\* cap on the getPageText calls in flight
MaxTextReqs == 2
\* the largest requested font size of an overlay, in quarter points
MaxSize == 28
\* the widest rect of an overlay, in multiples of 3 points
MaxWidthN == 6
\* the pieces a font resource is written in
FontParts == 2
\* the distinct font files a caller registers
MaxFontFiles == 2
\* the most edits of an export request followed through the pipeline
MaxPipelineEdits == 3

(* ------------------------- program constants --------------------------- *)

\* the zoom levels, in quarters: useState(1.5), Math.min(z + 0.25, 4), Math.max(z - 0.25, 0.5)
ZoomInitial == 6
ZoomMax == 16
ZoomMin == 2

\* the matching tolerance, in points: Math.abs(...) < 1
Eps == 1

(* ------------------------------ values --------------------------------- *)

\* JavaScript's null, for the states that hold an object or null
Null == [null |-> TRUE]
NoDoc == Null
NoText == Null
NoSpan == Null
NoBlob == Null
NoPdf == Null

\* Math.abs
Abs(n) == IF n < 0 THEN 0 - n ELSE n

MkRect(x0, y0, w, h) == [x0 |-> x0, y0 |-> y0, x1 |-> x0 + w, y1 |-> y0 + h]

MkSpan(text, font, x0, y0) ==
    [text |-> text, font |-> font, size |-> 11, color |-> "#000000",
     rect |-> MkRect(x0, y0, Unit, Unit), flags |-> 0]

\* Three runs of one line of page 0 whose origins are less than a point apart
\* pairwise-adjacent (A~B, B~C) but not end to end (A, C), and a run on another line.
SpanA == MkSpan(<<"a">>, "Roboto-Regular", 0, 0)
SpanB == MkSpan(<<"b">>, "Roboto-Bold", Unit - 1, 0)
SpanC == MkSpan(<<"c">>, "Foo-Bold", 2 * Unit - 2, 0)
SpanD == MkSpan(<<"d">>, "Roboto-Regular", Unit - 1, 2 * Unit)

\* the uploaded document: a wide page of three runs and a narrow page of one
DocPages ==
    <<[width |-> 4 * Unit, height |-> 4 * Unit, spans |-> <<SpanA, SpanB, SpanC>>],
      [width |-> 2 * Unit - 1, height |-> 4 * Unit, spans |-> <<SpanD>>]>>

PageCount == Len(DocPages)

Pages == 0 .. (PageCount - 1)

\* the page text query result of each page
PageSpans(p) == DocPages[p + 1].spans

PageWidth(p) == DocPages[p + 1].width

PageHeight(p) == DocPages[p + 1].height

ThePageText(p) ==
    [page |-> p, width |-> PageWidth(p), height |-> PageHeight(p), spans |-> PageSpans(p)]

TheDoc ==
    [id |-> "doc-1", filename |-> "a.pdf", pageCount |-> PageCount,
     pages |-> [p \in Pages |-> [page |-> p, width |-> PageWidth(p), height |-> PageHeight(p)]]]

\* the PDFDocumentProxy pdf.js resolves
ThePdf == [numPages |-> PageCount]

AllSpans == UNION {{PageSpans(p)[i] : i \in 1 .. Len(PageSpans(p))} : p \in Pages}

\* texts a user confirms (already trimmed, different from every span's text)
NewTexts == {<<"x">>, <<"y">>}

(* --------------------------- edit list --------------------------------- *)

EditKey_NoIncrement(n) == <<"edit", 1>>

\* nextEditKey's `edit-${n}`
EditKey(n) == <<"edit", n>>

MkEdit_ScreenRect(key, page, span, text) ==
    [key |-> key, page |-> page,
     rect |-> [x0 |-> span.rect.x0 * zoom, y0 |-> span.rect.y0 * zoom,
               x1 |-> span.rect.x1 * zoom, y1 |-> span.rect.y1 * zoom],
     original_text |-> span.text,
     new_text |-> text, font |-> span.font, font_size |-> span.size, color |-> span.color]

\* the EditOperation confirmEdit builds
MkEdit(key, page, span, text) ==
    [key |-> key, page |-> page, rect |-> span.rect, original_text |-> span.text,
     new_text |-> text, font |-> span.font, font_size |-> span.size, color |-> span.color]

EditMatches_Inclusive(e, edit) ==
    /\ e.page = edit.page
    /\ Abs(e.rect.x0 - edit.rect.x0) <= Eps * Unit
    /\ Abs(e.rect.y0 - edit.rect.y0) <= Eps * Unit

\* the predicate of handleAddEdit's findIndex
EditMatches(e, edit) ==
    /\ e.page = edit.page
    /\ Abs(e.rect.x0 - edit.rect.x0) < Eps * Unit
    /\ Abs(e.rect.y0 - edit.rect.y0) < Eps * Unit

\* Array.prototype.findIndex over 1-based sequences: 0 instead of -1
FindIndex(prev, edit) ==
    IF \E i \in 1 .. Len(prev) : EditMatches(prev[i], edit)
    THEN CHOOSE i \in 1 .. Len(prev) :
            /\ EditMatches(prev[i], edit)
            /\ \A j \in 1 .. (i - 1) : ~EditMatches(prev[j], edit)
    ELSE 0

AddEdit_AlwaysAppend(prev, edit) == Append(prev, edit)

AddEdit_MoveToEnd(prev, edit) ==
    Append(SelectSeq(prev, LAMBDA e : ~EditMatches(e, edit)), edit)

\* the updater handleAddEdit passes to setEdits
AddEdit(prev, edit) ==
    LET idx == FindIndex(prev, edit)
    IN  IF idx >= 1 THEN [prev EXCEPT ![idx] = edit] ELSE Append(prev, edit)

\* the updater handleRemoveEdit passes to setEdits
RemoveEdit(prev, key) == SelectSeq(prev, LAMBDA e : e.key # key)

(* ---------------------------- state ------------------------------------ *)

editVars == <<edits, editCounter>>
appVars == <<docInfo, uploading, currentPage, toasts>>
exportVars == <<exporting, exportReqs, download, exportLog>>
viewerVars == <<pdfDoc, pageText, rendering, textReqs, editingSpan, editingInView, editValue>>
fontVars == <<loadedFonts, fontsPc, fontQueue>>
coreVars == <<fit, registry, pipeline>>
vars == <<editVars, appVars, exportVars, viewerVars, fontVars, submitted, zoom, coreVars>>

\* the core is idle
InitCore == fit = Null /\ registry = Null /\ pipeline = Null

\* a document is open in the editor view and its first page is displayed
InitEditor ==
    /\ docInfo = TheDoc
    /\ uploading = FALSE
    /\ exporting = FALSE
    /\ currentPage = 0
    /\ edits = <<>>
    /\ toasts = <<>>
    /\ editCounter = 0
    /\ pdfDoc = ThePdf
    /\ pageText = ThePageText(0)
    /\ rendering = FALSE
    /\ textReqs = [p \in Pages |-> 0]
    /\ editingSpan = NoSpan
    /\ editingInView = FALSE
    /\ editValue = <<>>
    /\ loadedFonts = {}
    /\ fontsPc = "listing"
    /\ fontQueue = <<>>
    /\ exportReqs = <<>>
    /\ download = NoBlob
    /\ exportLog = "none"
    /\ submitted = <<>>
    /\ zoom = ZoomInitial
    /\ InitCore

(* ------------------------ edit management ------------------------------ *)

handleAddEdit(edit) == edits' = AddEdit(edits, edit)

\* onAddEdit({key: nextEditKey(), page, rect: span.rect, ..., new_text})
SubmitEdit(p, s, t) ==
    /\ editCounter < MaxKeys
    /\ editCounter' = editCounter + 1
    /\ handleAddEdit(MkEdit(EditKey(editCounter + 1), p, s, t))
    /\ UNCHANGED <<appVars, exportVars, viewerVars, fontVars, submitted, zoom, coreVars>>

handleRemoveEdit(key) ==
    /\ edits' = RemoveEdit(edits, key)
    /\ UNCHANGED <<editCounter, appVars, exportVars, viewerVars, fontVars, submitted, zoom, coreVars>>

handleResetEdits ==
    /\ Len(edits) > 0
    /\ edits' = <<>>
    /\ UNCHANGED <<editCounter, appVars, exportVars, viewerVars, fontVars, submitted, zoom, coreVars>>

NextEdits ==
    \/ \E p \in Pages, s \in AllSpans, t \in NewTexts : SubmitEdit(p, s, t)
    \/ \E n \in 1 .. editCounter : handleRemoveEdit(EditKey(n))
    \/ handleResetEdits

SpecEdits == InitEditor /\ [][NextEdits]_vars

(* ------------------- the export endpoint (backend) --------------------- *)

\* the font registry of the document and the default fallback resource
RegisteredFonts == {"Roboto-Regular", "Roboto"}

DefaultFont == "Helvetica"

\* a logical name without its trailing weight/style qualifier
FamilyName(name) ==
    CASE name = "Roboto-Regular" -> "Roboto"
      [] name = "Roboto-Bold" -> "Roboto"
      [] name = "Foo-Bold" -> "Foo"
      [] OTHER -> name

\* resolve(name): exact name, then family, then the default fallback
Resolve(name) ==
    IF name \in RegisteredFonts THEN [resource |-> name, match |-> "exact"]
    ELSE IF FamilyName(name) \in RegisteredFonts
         THEN [resource |-> FamilyName(name), match |-> "family"]
         ELSE [resource |-> DefaultFont, match |-> "fallback"]

\* Validate: the rect of an edit lies within its page, the page within the document
RectInPage(e) ==
    /\ e.page \in Pages
    /\ 0 <= e.rect.x0 /\ e.rect.x0 < e.rect.x1 /\ e.rect.x1 <= PageWidth(e.page)
    /\ 0 <= e.rect.y0 /\ e.rect.y0 < e.rect.y1 /\ e.rect.y1 <= PageHeight(e.page)

\* every violation of a request, by index
Violations(body) == {i \in 1 .. Len(body.edits) : ~RectInPage(body.edits[i])}

\* Resolve, Render, Compose, Serialize: the original document under one overlay per
\* edit, in the order of the request
Compose(body) ==
    [document |-> TheDoc.id,
     overlays |-> [i \in 1 .. Len(body.edits) |->
                    [page |-> body.edits[i].page, rect |-> body.edits[i].rect,
                     text |-> body.edits[i].new_text,
                     font |-> Resolve(body.edits[i].font).resource,
                     size |-> body.edits[i].font_size, color |-> body.edits[i].color]]]

\* the response of POST /api/documents/{id}/export to a request that arrives
BackendExport(body) ==
    IF Violations(body) # {}
    THEN [ok |-> FALSE, status |-> 422, body |-> [violations |-> Violations(body)]]
    ELSE [ok |-> TRUE, status |-> 200, body |-> Compose(body)]

\* composition or serialization failed: ExportError
ExportError == [ok |-> FALSE, status |-> 500, body |-> [error |-> "ExportError"]]

\* fetch rejects: the request or the response was lost
NetworkError == [rejected |-> TRUE]

Responses(body) ==
    {NetworkError, BackendExport(body)} \cup (IF Violations(body) = {} THEN {ExportError} ELSE {})

(* --------------------------- export client ----------------------------- *)

Thrown == [thrown |-> TRUE]

ExportPayload_KeepsKey(list) == [edits |-> list]

\* exportDocument: the body posted, edits.map(({ key, ...rest }) => rest)
ExportPayload(list) ==
    [edits |-> [i \in 1 .. Len(list) |->
                 [page |-> list[i].page, rect |-> list[i].rect,
                  original_text |-> list[i].original_text, new_text |-> list[i].new_text,
                  font |-> list[i].font, font_size |-> list[i].font_size,
                  color |-> list[i].color]]]

exportDocument_IgnoresStatus(res) == IF res = NetworkError THEN Thrown ELSE [blob |-> res.body]

\* exportDocument: what the awaited call yields for a response
exportDocument(res) ==
    IF res = NetworkError THEN Thrown
    ELSE IF ~res.ok THEN Thrown
    ELSE [blob |-> res.body]

ExportDisabled_WhenEmptyOnly(editCount, isExporting) == editCount = 0

ExportDisabled_WhileExportingOnly(editCount, isExporting) == isExporting

\* Toolbar: disabled={editCount === 0 || exporting}
ExportDisabled(editCount, isExporting) == editCount = 0 \/ isExporting

\* addToast: the toast appended
addToast(type) == toasts' = Append(toasts, type)

\* handleExport up to its await
handleExport ==
    IF docInfo = NoDoc \/ Len(edits) = 0
    THEN /\ exportLog' = "returned"
         /\ UNCHANGED <<exporting, exportReqs>>
    ELSE /\ exporting' = TRUE
         /\ exportReqs' = Append(exportReqs, ExportPayload(edits))
         /\ exportLog' = "requested"

\* a click on the export button of the toolbar
ExportButtonClick ==
    /\ docInfo # NoDoc
    /\ IF ExportDisabled(Len(edits), exporting)
       THEN /\ exportLog' = "disabled"
            /\ UNCHANGED <<exporting, exportReqs>>
       ELSE handleExport
    /\ UNCHANGED <<editVars, docInfo, uploading, currentPage, toasts, download, viewerVars, fontVars, submitted, zoom, coreVars>>

ExportingAfter_ClearedOnSuccessOnly(result) == result = Thrown

\* handleExport's finally: setExporting(false), whatever the awaited call yielded
ExportingAfter(result) == FALSE

\* handleExport from its await on: the request i settles with response res
ExportSettles(i, res) ==
    /\ i \in 1 .. Len(exportReqs)
    /\ res \in Responses(exportReqs[i])
    /\ Len(toasts) < MaxToasts
    /\ exportReqs' = [j \in 1 .. (Len(exportReqs) - 1) |->
                        IF j < i THEN exportReqs[j] ELSE exportReqs[j + 1]]
    /\ IF exportDocument(res) = Thrown
       THEN /\ addToast("error")
            /\ exportLog' = "failed"
            /\ UNCHANGED download
       ELSE /\ download' = exportDocument(res).blob
            /\ addToast("success")
            /\ exportLog' = "downloaded"
    /\ exporting' = ExportingAfter(exportDocument(res))
    /\ UNCHANGED <<editVars, docInfo, uploading, currentPage, viewerVars, fontVars, submitted, zoom, coreVars>>

\* dismissToast, or the 4 s timer addToast sets
dismissToast(i) ==
    /\ i \in 1 .. Len(toasts)
    /\ toasts' = [j \in 1 .. (Len(toasts) - 1) |-> IF j < i THEN toasts[j] ELSE toasts[j + 1]]
    /\ UNCHANGED <<editVars, docInfo, uploading, currentPage, exportVars, viewerVars, fontVars, submitted, zoom, coreVars>>

ExportSpans == {SpanA, SpanC}

AllResponses == {NetworkError, ExportError} \cup {BackendExport(exportReqs[i]) : i \in 1 .. Len(exportReqs)}

NextExport ==
    \/ \E p \in Pages, s \in ExportSpans :
         editCounter < MaxExportKeys /\ SubmitEdit(p, s, <<"x">>)
    \/ \E i \in 1 .. Len(edits) : handleRemoveEdit(edits[i].key)
    \/ handleResetEdits
    \/ ExportButtonClick
    \/ \E i \in 1 .. Len(exportReqs), res \in AllResponses : ExportSettles(i, res)
    \/ \E i \in 1 .. Len(toasts) : dismissToast(i)

SpecExport == InitEditor /\ [][NextExport]_vars

\* every request eventually settles, and a toast goes away after its 4 s timer
SpecExportLive ==
    /\ SpecExport
    /\ WF_vars(\E i \in 1 .. Len(exportReqs), res \in AllResponses : ExportSettles(i, res))
    /\ WF_vars(\E i \in 1 .. Len(toasts) : dismissToast(i))

(* ------------------------------ viewer -------------------------------- *)

\* String.prototype.trim on a sequence of characters
RECURSIVE TrimStart(_)
TrimStart(str) ==
    IF str # <<>> /\ Head(str) = " " THEN TrimStart(Tail(str)) ELSE str

RECURSIVE TrimEnd(_)
TrimEnd(str) ==
    IF str # <<>> /\ str[Len(str)] = " " THEN TrimEnd(SubSeq(str, 1, Len(str) - 1)) ELSE str

Trim(str) == TrimEnd(TrimStart(str))

\* what a user types into the inline editor
TypedValues == {<<" ">>, <<" ", "x", " ">>}

\* the render effect runs again: its dependencies [pdfDoc, currentPage, zoom, docInfo.id]
\* changed.  The run before it is cancelled; without a pdfDoc the new one returns at once.
RenderEffect(pdf) == rendering' = (pdf # NoPdf)

\* setCurrentPage(p), and the render effect when the page changes
setCurrentPage(p) ==
    /\ currentPage' = p
    /\ IF p # currentPage THEN RenderEffect(pdfDoc) ELSE UNCHANGED rendering

\* handleFile up to its await: a file is dropped on the upload area
handleFile ==
    /\ docInfo = NoDoc
    /\ ~uploading
    /\ uploading' = TRUE
    /\ UNCHANGED <<editVars, docInfo, currentPage, toasts, exportVars, viewerVars, fontVars, submitted, zoom, coreVars>>

\* handleFile from its await on; PdfViewer mounts when the upload succeeded and its
\* effects start: getDocument, loadFonts, the render effect (which returns: no pdfDoc)
UploadSettles(ok) ==
    /\ uploading
    /\ Len(toasts) < MaxToasts
    /\ IF ok
       THEN /\ docInfo' = TheDoc
            /\ currentPage' = 0
            /\ edits' = <<>>
            /\ addToast("success")
            /\ fontsPc' = "listing"
       ELSE /\ addToast("error")
            /\ UNCHANGED <<docInfo, currentPage, edits, fontsPc>>
    /\ uploading' = FALSE
    /\ UNCHANGED <<editCounter, exportVars, viewerVars, loadedFonts, fontQueue, submitted, zoom, coreVars>>

\* getDocument(pdfUrl) resolves: setPdfDoc(doc), and the render effect runs
PdfLoaded ==
    /\ docInfo # NoDoc
    /\ pdfDoc = NoPdf
    /\ pdfDoc' = ThePdf
    /\ RenderEffect(ThePdf)
    /\ UNCHANGED <<editVars, appVars, exportVars, pageText, textReqs, editingSpan,
                   editingInView, editValue, fontVars, submitted, zoom, coreVars>>

\* render(): getPage and page.render are done, the run was not cancelled, and
\* getPageText(docInfo.id, currentPage) is called
RenderDone ==
    /\ rendering
    /\ textReqs[0] + textReqs[PageCount - 1] < MaxTextReqs
    /\ rendering' = FALSE
    /\ textReqs' = [textReqs EXCEPT ![currentPage] = @ + 1]
    /\ UNCHANGED <<editVars, appVars, exportVars, pdfDoc, pageText, editingSpan,
                   editingInView, editValue, fontVars, submitted, zoom, coreVars>>

\* what render() passes to setPageText: the text of the page, or null in its catch
TextSettles(p, ok) == IF ok THEN ThePageText(p) ELSE NoText

\* a getPageText call for page p settles; the spans of a new pageText are new objects
PageTextSettles(p, ok) ==
    /\ textReqs[p] > 0
    /\ textReqs' = [textReqs EXCEPT ![p] = @ - 1]
    /\ pageText' = TextSettles(p, ok)
    /\ editingInView' = FALSE
    /\ UNCHANGED <<editVars, appVars, exportVars, pdfDoc, rendering, editingSpan,
                   editValue, fontVars, submitted, zoom, coreVars>>

\* Toolbar: previous page, disabled={currentPage <= 0}
handlePrevPage ==
    /\ docInfo # NoDoc
    /\ ~(currentPage <= 0)
    /\ setCurrentPage(IF currentPage - 1 > 0 THEN currentPage - 1 ELSE 0)
    /\ UNCHANGED <<editVars, docInfo, uploading, toasts, exportVars, pdfDoc, pageText,
                   textReqs, editingSpan, editingInView, editValue, fontVars, submitted, zoom, coreVars>>

handleNextPage_Unclamped ==
    /\ docInfo # NoDoc
    /\ setCurrentPage(currentPage + 1)
    /\ UNCHANGED <<editVars, docInfo, uploading, toasts, exportVars, pdfDoc, pageText,
                   textReqs, editingSpan, editingInView, editValue, fontVars, submitted, zoom, coreVars>>

\* Toolbar: next page, disabled={currentPage >= pageCount - 1}
handleNextPage ==
    /\ docInfo # NoDoc
    /\ ~(currentPage >= docInfo.pageCount - 1)
    /\ setCurrentPage(IF currentPage + 1 < docInfo.pageCount - 1
                      THEN currentPage + 1 ELSE docInfo.pageCount - 1)
    /\ UNCHANGED <<editVars, docInfo, uploading, toasts, exportVars, pdfDoc, pageText,
                   textReqs, editingSpan, editingInView, editValue, fontVars, submitted, zoom, coreVars>>

\* EditPanel: a click on the entry of an edit
handleGoToEdit(edit) ==
    /\ setCurrentPage(edit.page)
    /\ UNCHANGED <<editVars, docInfo, uploading, toasts, exportVars, pdfDoc, pageText,
                   textReqs, editingSpan, editingInView, editValue, fontVars, submitted, zoom, coreVars>>

EditForSpan_ExactRect(span) ==
    LET hits == {i \in 1 .. Len(edits) :
                    edits[i].page = currentPage /\ edits[i].rect = span.rect}
    IN  IF hits = {} THEN Null
        ELSE edits[CHOOSE i \in hits : \A j \in hits : i <= j]

\* edits.find(...) of handleSpanClick and getEditForSpan: the first edit of the
\* current page with an origin within the tolerance of the span's, or null
EditForSpan(span) ==
    LET hits == {i \in 1 .. Len(edits) :
                    /\ edits[i].page = currentPage
                    /\ Abs(edits[i].rect.x0 - span.rect.x0) < Eps * Unit
                    /\ Abs(edits[i].rect.y0 - span.rect.y0) < Eps * Unit}
    IN  IF hits = {} THEN Null
        ELSE edits[CHOOSE i \in hits : \A j \in hits : i <= j]

\* the spans the overlay offers: pageText?.spans
OfferedSpans == IF pageText = NoText THEN {} ELSE {pageText.spans[i] : i \in 1 .. Len(pageText.spans)}

\* the span is drawn as edited: isEdited = !!edit
isEdited(span) == EditForSpan(span) # Null

\* a click on a span of the overlay
handleSpanClick(span) ==
    /\ span \in OfferedSpans
    /\ editingSpan' = span
    /\ editingInView' = TRUE
    /\ editValue' = IF EditForSpan(span) # Null THEN EditForSpan(span).new_text ELSE span.text
    /\ UNCHANGED <<editVars, appVars, exportVars, pdfDoc, pageText, rendering, textReqs, fontVars, submitted, zoom, coreVars>>

\* the inline editor is rendered: isEditing for a span of the overlay
EditorShown == editingSpan # NoSpan /\ editingInView

\* the input's onChange
onChange(v) ==
    /\ EditorShown
    /\ editValue' = v
    /\ UNCHANGED <<editVars, appVars, exportVars, pdfDoc, pageText, rendering, textReqs,
                   editingSpan, editingInView, fontVars, submitted, zoom, coreVars>>

ShouldAdd_WhenNonEmpty(trimmed, span) == trimmed # <<>>

\* confirmEdit's test: trimmed && trimmed !== editingSpan.text
ShouldAdd(trimmed, span) == trimmed # <<>> /\ trimmed # span.text

\* Enter or "Aplicar" in the inline editor
confirmEdit ==
    /\ EditorShown
    /\ LET trimmed == Trim(editValue)
       IN  IF ShouldAdd(trimmed, editingSpan)
           THEN /\ editCounter < MaxSessionKeys
                /\ editCounter' = editCounter + 1
                /\ handleAddEdit(MkEdit(EditKey(editCounter + 1), currentPage, editingSpan, trimmed))
           ELSE UNCHANGED editVars
    /\ editingSpan' = NoSpan
    /\ editValue' = <<>>
    /\ editingInView' = FALSE
    /\ UNCHANGED <<appVars, exportVars, pdfDoc, pageText, rendering, textReqs, fontVars, submitted, zoom, coreVars>>

\* Escape or "Cancelar" in the inline editor
cancelEdit ==
    /\ EditorShown
    /\ editingSpan' = NoSpan
    /\ editValue' = <<>>
    /\ editingInView' = FALSE
    /\ UNCHANGED <<editVars, appVars, exportVars, pdfDoc, pageText, rendering, textReqs, fontVars, submitted, zoom, coreVars>>

\* the state after construction: no document, the upload area shown
Init ==
    /\ docInfo = NoDoc
    /\ uploading = FALSE
    /\ exporting = FALSE
    /\ currentPage = 0
    /\ edits = <<>>
    /\ toasts = <<>>
    /\ editCounter = 0
    /\ pdfDoc = NoPdf
    /\ pageText = NoText
    /\ rendering = FALSE
    /\ textReqs = [p \in Pages |-> 0]
    /\ editingSpan = NoSpan
    /\ editingInView = FALSE
    /\ editValue = <<>>
    /\ loadedFonts = {}
    /\ fontsPc = "idle"
    /\ fontQueue = <<>>
    /\ exportReqs = <<>>
    /\ download = NoBlob
    /\ exportLog = "none"
    /\ submitted = <<>>
    /\ zoom = ZoomInitial
    /\ InitCore

Next ==
    \/ handleFile
    \/ \E ok \in BOOLEAN : UploadSettles(ok)
    \/ PdfLoaded
    \/ RenderDone
    \/ \E p \in Pages, ok \in BOOLEAN : PageTextSettles(p, ok)
    \/ handlePrevPage
    \/ handleNextPage
    \/ \E i \in 1 .. Len(edits) : handleGoToEdit(edits[i])
    \/ \E span \in OfferedSpans : handleSpanClick(span)
    \/ \E v \in TypedValues : onChange(v)
    \/ confirmEdit
    \/ cancelEdit
    \/ \E i \in 1 .. Len(edits) : handleRemoveEdit(edits[i].key)
    \/ handleResetEdits
    \/ \E i \in 1 .. Len(toasts) : dismissToast(i)

Spec == Init /\ [][Next]_vars

(* ---------------------------- inline editor --------------------------- *)

\* what a user types when the text of a span is typed again, too
EditorValues == TypedValues \cup {s.text : s \in AllSpans}

NextEditor ==
    \/ \E span \in OfferedSpans : handleSpanClick(span)
    \/ \E v \in EditorValues : onChange(v)
    \/ confirmEdit
    \/ cancelEdit

\* the inline editor over the first page of an open document
SpecEditor == InitEditor /\ [][NextEditor]_vars

(* ------------------------------- zoom --------------------------------- *)

\* setZoom(z), and the render effect when the zoom changes
setZoom(z) ==
    /\ zoom' = z
    /\ IF z # zoom THEN RenderEffect(pdfDoc) ELSE UNCHANGED rendering

\* Toolbar: zoom in
handleZoomIn ==
    /\ docInfo # NoDoc
    /\ setZoom(IF zoom + 1 < ZoomMax THEN zoom + 1 ELSE ZoomMax)
    /\ UNCHANGED <<editVars, appVars, exportVars, pdfDoc, pageText, textReqs, editingSpan,
                   editingInView, editValue, fontVars, submitted, coreVars>>

\* Toolbar: zoom out
handleZoomOut ==
    /\ docInfo # NoDoc
    /\ setZoom(IF zoom - 1 > ZoomMin THEN zoom - 1 ELSE ZoomMin)
    /\ UNCHANGED <<editVars, appVars, exportVars, pdfDoc, pageText, textReqs, editingSpan,
                   editingInView, editValue, fontVars, submitted, coreVars>>

\* spanStyle: the on-screen box of a span, in quarters of a pixel per grid unit
spanStyle(span) ==
    IF pageText = NoText THEN [position |-> "static"]
    ELSE [position |-> "absolute",
          left |-> span.rect.x0 * zoom,
          top |-> span.rect.y0 * zoom,
          width |-> (span.rect.x1 - span.rect.x0) * zoom,
          height |-> (span.rect.y1 - span.rect.y0) * zoom]

NextZoom ==
    \/ handleZoomIn
    \/ handleZoomOut
    \/ RenderDone
    \/ \E p \in Pages, ok \in BOOLEAN : PageTextSettles(p, ok)
    \/ \E span \in OfferedSpans : handleSpanClick(span)
    \/ \E v \in TypedValues : onChange(v)
    \/ confirmEdit
    \/ cancelEdit

SpecZoom == InitEditor /\ [][NextZoom]_vars

(* ------------------------------- fonts --------------------------------- *)

\* listFonts(docInfo.id): the fonts the server extracted from the document
ListedFonts == <<"Roboto-Regular", "Roboto-Bold">>

\* the loadedFonts that loadFonts' closure sees: the effect depends on [docInfo.id]
\* alone, so it is the state of the first render, new Set()
ClosureLoadedFonts == {}

\* loadFonts: listFonts settles; a failed listing ends in the outer catch
FontsListed(ok) ==
    /\ fontsPc = "listing"
    /\ IF ok /\ ListedFonts # <<>>
       THEN fontQueue' = ListedFonts /\ fontsPc' = "loading"
       ELSE fontQueue' = <<>> /\ fontsPc' = "done"
    /\ UNCHANGED <<editVars, appVars, exportVars, viewerVars, loadedFonts, submitted, zoom, coreVars>>

RestAfterVisit_AbortsOnFailure(queue, ok) == IF ok THEN Tail(queue) ELSE <<>>

\* the names left after one pass of the for loop: the inner try/catch keeps the loop going
RestAfterVisit(queue, ok) == Tail(queue)

\* setLoadedFonts((prev) => new Set(prev).add(name)) after face.load() resolved
LoadedAfterVisit(loaded, name, ok) ==
    IF name \in ClosureLoadedFonts THEN loaded
    ELSE IF ok THEN loaded \cup {name}
    ELSE loaded

\* loadFonts: one pass of the for loop, face.load() resolving (ok) or rejecting
FontVisit(ok) ==
    /\ fontsPc = "loading"
    /\ loadedFonts' = LoadedAfterVisit(loadedFonts, Head(fontQueue), ok)
    /\ fontQueue' = RestAfterVisit(fontQueue, ok)
    /\ fontsPc' = IF fontQueue' = <<>> THEN "done" ELSE "loading"
    /\ UNCHANGED <<editVars, appVars, exportVars, viewerVars, submitted, zoom, coreVars>>

EditorFontFamily_AlwaysSpanFont(span, loaded) == <<span.font, "sans-serif">>

\* the fontFamily of the inline editor's input
EditorFontFamily(span, loaded) ==
    IF span.font \in loaded THEN <<span.font, "sans-serif">> ELSE <<"sans-serif">>

NextFonts ==
    \/ \E ok \in BOOLEAN : FontsListed(ok)
    \/ \E ok \in BOOLEAN : FontVisit(ok)
    \/ \E span \in OfferedSpans : handleSpanClick(span)
    \/ \E v \in TypedValues : onChange(v)
    \/ confirmEdit
    \/ cancelEdit
    \/ ExportButtonClick
    \/ \E i \in 1 .. Len(exportReqs), res \in AllResponses : ExportSettles(i, res)
    \/ \E i \in 1 .. Len(toasts) : dismissToast(i)

SpecFonts == InitEditor /\ [][NextFonts]_vars

(* --------------------- auto-fit layout of the core --------------------- *)
(* Font sizes and lengths are in quarter points; a text is the sequence of *)
(* the lengths of its words; every glyph advances by one em and a line is  *)
(* one em high.                                                            *)

\* the fixed step of the auto-fit loop: 0.5pt
Step == 2
\* the minimum size floor: 6pt
Floor == 24

\* width of n glyphs at a size, by the resolved font's metrics
Measure(n, size) == n * size

\* glyphs of the text on a single line: the words and the spaces between them
RECURSIVE LineGlyphs(_)
LineGlyphs(words) ==
    IF words = <<>> THEN 0
    ELSE IF Len(words) = 1 THEN words[1]
    ELSE words[1] + 1 + LineGlyphs(Tail(words))

\* greedy packing: break before the word that would overflow.  cur is the number of
\* glyphs on the line being filled, lines the number of lines begun
RECURSIVE Pack(_, _, _, _, _)
Pack(words, cur, lines, size, width) ==
    IF words = <<>> THEN [lines |-> lines, overflow |-> FALSE]
    ELSE IF cur = 0
    THEN LET rest == Pack(Tail(words), words[1], lines + 1, size, width)
         IN  [rest EXCEPT !.overflow = @ \/ Measure(words[1], size) > width]
    ELSE IF Measure(cur + 1 + words[1], size) <= width
    THEN Pack(Tail(words), cur + 1 + words[1], lines, size, width)
    ELSE Pack(words, 0, lines, size, width)

Fits_Inverted(in, size) == Measure(LineGlyphs(in.text), size) > in.width

\* the text fits the rect at a size: the single line in the width, or the wrapped
\* lines in the width and their stacked height in the height
Fits(in, size) ==
    IF in.wrap
    THEN LET packed == Pack(in.text, 0, 0, size, in.width)
         IN  ~packed.overflow /\ packed.lines * size <= in.height
    ELSE Measure(LineGlyphs(in.text), size) <= in.width

SmallerSize_Grows(size) == size + Step

\* decrease size by the fixed step
SmallerSize(size) == size - Step

\* the size the auto-fit search chooses, starting from a size
RECURSIVE ChosenSize(_, _)
ChosenSize(in, size) ==
    IF Fits(in, size) \/ size <= Floor THEN size ELSE ChosenSize(in, SmallerSize(size))

FitTexts == {<<1>>, <<2, 1>>, <<1, 1, 1>>}
FitWidths == {3 * 4 * n : n \in 1 .. MaxWidthN}
FitHeights == {Floor, 2 * Floor + 4}
FitSizes == (Floor - Step) .. MaxSize
FitInputs ==
    [text : FitTexts, width : FitWidths, height : FitHeights, requested : FitSizes,
     wrap : BOOLEAN]

\* layout step 1: start at the edit's requested fontSize
FitStart(in) ==
    /\ fit = Null
    /\ fit' = [in |-> in, size |-> in.requested, pc |-> "measure", truncated |-> FALSE]
    /\ UNCHANGED <<editVars, appVars, exportVars, viewerVars, fontVars, submitted, zoom,
                   registry, pipeline>>

\* layout steps 2 and 3: measure; stop when it fits or the floor is reached (truncating
\* what still overflows), else shrink and measure again
FitMeasure ==
    /\ fit # Null
    /\ fit.pc = "measure"
    /\ fit.size < MaxSize + Step + 1
    /\ IF Fits(fit.in, fit.size) \/ fit.size <= Floor
       THEN fit' = [fit EXCEPT !.pc = "done", !.truncated = ~Fits(fit.in, fit.size)]
       ELSE fit' = [fit EXCEPT !.size = SmallerSize(fit.size)]
    /\ UNCHANGED <<editVars, appVars, exportVars, viewerVars, fontVars, submitted, zoom,
                   registry, pipeline>>

\* the overlay is drawn and the renderer turns to the next edit
FitReturn ==
    /\ fit # Null
    /\ fit.pc = "done"
    /\ fit' = Null
    /\ UNCHANGED <<editVars, appVars, exportVars, viewerVars, fontVars, submitted, zoom,
                   registry, pipeline>>

NextFit ==
    \/ \E in \in FitInputs : FitStart(in)
    \/ FitMeasure
    \/ FitReturn

SpecFit == InitEditor /\ [][NextFit]_vars

\* the loop is sequential code: a measurement that can be made is made
SpecFitLive == SpecFit /\ WF_vars(FitMeasure)

(* ----------------------- font registry of the core --------------------- *)
(* A resource is the font file it was built from and the number of its     *)
(* pieces written so far; it is usable when all of them are written.       *)

\* the names the registry of the document is asked about
RegistryNames == {"Roboto-Bold", "Roboto", "Foo-Bold"}

\* the names a caller registers
WritableNames == {"Roboto-Bold", "Roboto"}

FontFiles == 1 .. MaxFontFiles

\* the process-wide default fallback resource, loaded once at startup
DefaultResource == [file |-> 0, written |-> FontParts]

Usable(resource) == resource # Null /\ resource.written = FontParts

\* the lookup of a name in a published map: its resource, or a miss
Lookup(map, name) == IF name \in DOMAIN map THEN map[name] ELSE Null

\* resolve(name) on a published map: exact name, then family, then the default
ResolveIn(map, name) ==
    IF Lookup(map, name) # Null THEN Lookup(map, name)
    ELSE IF Lookup(map, FamilyName(name)) # Null THEN Lookup(map, FamilyName(name))
    ELSE DefaultResource

\* one registry instance per document, created with the document
RegistryOpen ==
    /\ registry = Null
    /\ registry' = [map |-> [n \in RegistryNames |->
                                IF n \in RegisteredFonts THEN [file |-> 1, written |-> FontParts]
                                ELSE Null],
                    staging |-> [n \in RegistryNames |-> Null],
                    read |-> Null]
    /\ UNCHANGED <<editVars, appVars, exportVars, viewerVars, fontVars, submitted, zoom,
                   fit, pipeline>>

\* register(name, fileBytes, format) begins: registrations of one name are serialized;
\* the new resource is built aside
RegisterBegin(name, file) ==
    /\ registry # Null
    /\ registry.staging[name] = Null
    /\ registry' = [registry EXCEPT !.staging[name] = [file |-> file, written |-> 0]]
    /\ UNCHANGED <<editVars, appVars, exportVars, viewerVars, fontVars, submitted, zoom,
                   fit, pipeline>>

PublishedWhileWriting_InPlace(map, name, resource) == [map EXCEPT ![name] = resource]

\* the published map while the resource of a name is being written: copy-on-write
\* leaves it as it is
PublishedWhileWriting(map, name, resource) == map

\* one more piece of the new resource is written
RegisterWrite(name) ==
    /\ registry # Null
    /\ registry.staging[name] # Null
    /\ registry.staging[name].written < FontParts
    /\ LET resource == [registry.staging[name] EXCEPT !.written = @ + 1]
       IN  registry' = [registry EXCEPT
                            !.staging[name] = resource,
                            !.map = PublishedWhileWriting(registry.map, name, resource)]
    /\ UNCHANGED <<editVars, appVars, exportVars, viewerVars, fontVars, submitted, zoom,
                   fit, pipeline>>

\* the file turns out not to be parseable: FontLoadError rejects the registration only
RegisterFail(name) ==
    /\ registry # Null
    /\ registry.staging[name] # Null
    /\ registry.staging[name].written < FontParts
    /\ registry' = [registry EXCEPT
                        !.staging[name] = Null,
                        !.map = PublishedWhileWriting(registry.map, name, registry.map[name])]
    /\ UNCHANGED <<editVars, appVars, exportVars, viewerVars, fontVars, submitted, zoom,
                   fit, pipeline>>

\* the fully written resource replaces the published one in a single swap
RegisterSwap(name) ==
    /\ registry # Null
    /\ registry.staging[name] # Null
    /\ registry.staging[name].written = FontParts
    /\ registry' = [registry EXCEPT !.map[name] = registry.staging[name],
                                    !.staging[name] = Null]
    /\ UNCHANGED <<editVars, appVars, exportVars, viewerVars, fontVars, submitted, zoom,
                   fit, pipeline>>

\* resolve(name) by any reader, at any time
ResolveRead(name) ==
    /\ registry # Null
    /\ registry' = [registry EXCEPT !.read = [name |-> name,
                                              resource |-> ResolveIn(registry.map, name)]]
    /\ UNCHANGED <<editVars, appVars, exportVars, viewerVars, fontVars, submitted, zoom,
                   fit, pipeline>>

NextRegistry ==
    \/ RegistryOpen
    \/ \E name \in WritableNames, file \in FontFiles : RegisterBegin(name, file)
    \/ \E name \in WritableNames : RegisterWrite(name)
    \/ \E name \in WritableNames : RegisterFail(name)
    \/ \E name \in WritableNames : RegisterSwap(name)
    \/ \E name \in RegistryNames : ResolveRead(name)

SpecRegistry == InitEditor /\ [][NextRegistry]_vars

(* ---------------------- export pipeline of the core -------------------- *)

\* Validate -> Extract (per page) -> Resolve (per edit) -> Render (per edit) ->
\* Compose (per page) -> Serialize
Stages == <<"Validate", "Extract", "Resolve", "Render", "Compose", "Serialize">>

StageSet == {Stages[i] : i \in 1 .. Len(Stages)}

StageAfter(stage) ==
    IF stage = "Serialize" THEN "Done"
    ELSE Stages[(CHOOSE i \in 1 .. Len(Stages) : Stages[i] = stage) + 1]

\* the units of work of a stage for a request of n edits on so many pages: Extract
\* takes every page, Compose the pages with at least one edit
StageUnits(stage, n, pages) ==
    CASE stage = "Extract" -> PageCount
      [] stage \in {"Resolve", "Render"} -> n
      [] stage = "Compose" -> pages
      [] OTHER -> 1

\* an export request enters the pipeline
PipelineStart(n, pages, valid) ==
    /\ pipeline = Null
    /\ pages <= n
    /\ pipeline' = [stage |-> "Validate", unit |-> 0, edits |-> n, pages |-> pages,
                    valid |-> valid,
                    cancelledAt |-> "none", output |-> FALSE]
    /\ UNCHANGED <<editVars, appVars, exportVars, viewerVars, fontVars, submitted, zoom,
                   fit, registry>>

\* the caller cancels the export
PipelineCancel ==
    /\ pipeline # Null
    /\ pipeline.stage \in StageSet
    /\ pipeline.cancelledAt = "none"
    /\ pipeline' = [pipeline EXCEPT !.cancelledAt = pipeline.stage]
    /\ UNCHANGED <<editVars, appVars, exportVars, viewerVars, fontVars, submitted, zoom,
                   fit, registry>>

MustStop_AtReadsOnly(p) == p.cancelledAt # "none" /\ p.stage \in {"Extract", "Resolve"}

\* a cancellation made before Serialize stops the pipeline at its next unit of work
MustStop(p) == p.cancelledAt # "none" /\ p.cancelledAt # "Serialize"

\* the pipeline after the unit of work at hand
AfterUnit(p) ==
    IF p.unit + 1 < StageUnits(p.stage, p.edits, p.pages) THEN [p EXCEPT !.unit = @ + 1]
    ELSE [p EXCEPT !.stage = StageAfter(p.stage), !.unit = 0,
                   !.output = (p.stage = "Serialize")]

\* one unit of work of the stage at hand; a cancellation that arrives during Serialize
\* may or may not be noticed
PipelineStep(noticed) ==
    /\ pipeline # Null
    /\ pipeline.stage \in StageSet
    /\ pipeline' =
            IF MustStop(pipeline) \/ (noticed /\ pipeline.cancelledAt # "none")
            THEN [pipeline EXCEPT !.stage = "Cancelled"]
            ELSE IF pipeline.stage = "Validate" /\ ~pipeline.valid
            THEN [pipeline EXCEPT !.stage = "Failed"]
            ELSE AfterUnit(pipeline)
    /\ UNCHANGED <<editVars, appVars, exportVars, viewerVars, fontVars, submitted, zoom,
                   fit, registry>>

\* composition or serialization fails: ExportError aborts the whole export
PipelineFails ==
    /\ pipeline # Null
    /\ pipeline.stage \in {"Compose", "Serialize"}
    /\ pipeline' = [pipeline EXCEPT !.stage = "Failed"]
    /\ UNCHANGED <<editVars, appVars, exportVars, viewerVars, fontVars, submitted, zoom,
                   fit, registry>>

\* the request is answered and the pipeline is free for the next one
PipelineReturn ==
    /\ pipeline # Null
    /\ pipeline.stage \in {"Done", "Failed", "Cancelled"}
    /\ pipeline' = Null
    /\ UNCHANGED <<editVars, appVars, exportVars, viewerVars, fontVars, submitted, zoom,
                   fit, registry>>

NextPipeline ==
    \/ \E n \in 1 .. MaxPipelineEdits, pages \in 1 .. PageCount, valid \in BOOLEAN :
            PipelineStart(n, pages, valid)
    \/ PipelineCancel
    \/ \E noticed \in BOOLEAN : PipelineStep(noticed)
    \/ PipelineFails
    \/ PipelineReturn

SpecPipeline == InitEditor /\ [][NextPipeline]_vars

(* ------------- the keyed mapping of the design notes ------------------- *)

\* round(x, eps): the nearest multiple of eps, halves upwards, as its index
Quantize(x) == (2 * x + Eps * Unit) \div (2 * Eps * Unit)

\* the geometric key (page, round(x0, eps), round(y0, eps))
KeyOf(e) == <<e.page, Quantize(e.rect.x0), Quantize(e.rect.y0)>>

\* key -> EditOperation, the edit submitted last under each key
KeyedPut(map, e) == [k \in DOMAIN map \cup {KeyOf(e)} |-> IF k = KeyOf(e) THEN e ELSE map[k]]

RECURSIVE Keyed(_)
Keyed(subs) ==
    IF subs = <<>> THEN <<>>
    ELSE KeyedPut(Keyed(SubSeq(subs, 1, Len(subs) - 1)), subs[Len(subs)])

\* runs whose origins are multiples of the tolerance
GridSpans ==
    {MkSpan(<<"g">>, "Roboto-Regular", i * Eps * Unit, j * Eps * Unit) : i \in 0 .. 1, j \in 0 .. 1}

\* a submission, recorded
KeyedSubmit(p, s, t) ==
    /\ editCounter < MaxKeys
    /\ editCounter' = editCounter + 1
    /\ handleAddEdit(MkEdit(EditKey(editCounter + 1), p, s, t))
    /\ submitted' = Append(submitted, MkEdit(EditKey(editCounter + 1), p, s, t))
    /\ UNCHANGED <<appVars, exportVars, viewerVars, fontVars, zoom, coreVars>>

NextKeyed == \E p \in Pages, s \in AllSpans \cup GridSpans : KeyedSubmit(p, s, <<"x">>)

SpecKeyed == InitEditor /\ [][NextKeyed]_vars

(* ------------------- claims about the edit list ------------------------ *)

\* the claims' own reading of "same region": same page, origins less than a point apart
SameRegion(a, b) ==
    /\ a.page = b.page
    /\ a.rect.x0 - b.rect.x0 < Eps * Unit
    /\ b.rect.x0 - a.rect.x0 < Eps * Unit
    /\ a.rect.y0 - b.rect.y0 < Eps * Unit
    /\ b.rect.y0 - a.rect.y0 < Eps * Unit

RegionIndexes(list, e) == {i \in 1 .. Len(list) : SameRegion(list[i], e)}

FirstRegionIndex(list, e) ==
    CHOOSE i \in RegionIndexes(list, e) : \A j \in RegionIndexes(list, e) : i <= j

SubmittedEdit(p, s, t) == MkEdit(EditKey(editCounter + 1), p, s, t)

\* C1: handleAddEdit follows the matching policy: when some entry has the page of the
\* incoming edit and an origin less than a point away in x and in y, the length is
\* unchanged and the first such entry becomes the incoming edit (its new_text wins);
\* otherwise the incoming edit is appended and the length grows by exactly one.
C1_MatchingPolicy ==
    [][\A p \in Pages, s \in AllSpans, t \in NewTexts :
        SubmitEdit(p, s, t) =>
            LET e == SubmittedEdit(p, s, t)
            IN  IF RegionIndexes(edits, e) # {}
                THEN /\ Len(edits') = Len(edits)
                     /\ edits'[FirstRegionIndex(edits, e)] = e
                     /\ edits'[FirstRegionIndex(edits, e)].new_text = t
                ELSE /\ Len(edits') = Len(edits) + 1
                     /\ edits'[Len(edits')] = e]_vars

\* an entry submitted third stands before the one submitted second: it replaced the first
C1_Witness ==
    /\ Len(edits) = 2
    /\ edits[1].key = EditKey(3)
    /\ edits[2].key = EditKey(2)

\* C2: no two distinct entries of the edit list have the same page and origins less
\* than a point apart in x and in y (at most one edit per region).
C2_OneEditPerRegion ==
    \A i, j \in 1 .. Len(edits) : i # j => ~SameRegion(edits[i], edits[j])

KeyIndex(list, key) == CHOOSE i \in 1 .. Len(list) : list[i].key = key

\* C3: a replacing handleAddEdit puts the new edit at the replaced entry's index and
\* leaves every other entry at its index; an appending one leaves all entries as they
\* were; handleRemoveEdit keeps the remaining entries, unchanged, in their order.
C3_StableOrder ==
    [][/\ \A p \in Pages, s \in AllSpans, t \in NewTexts :
            SubmitEdit(p, s, t) =>
                LET e == SubmittedEdit(p, s, t)
                IN  \/ /\ Len(edits') = Len(edits)
                       /\ \E i \in RegionIndexes(edits, e) :
                            /\ edits'[i] = e
                            /\ \A j \in 1 .. Len(edits) : j # i => edits'[j] = edits[j]
                    \/ /\ RegionIndexes(edits, e) = {}
                       /\ Len(edits') = Len(edits) + 1
                       /\ \A j \in 1 .. Len(edits) : edits'[j] = edits[j]
       /\ \A n \in 1 .. MaxKeys :
            handleRemoveEdit(EditKey(n)) =>
                /\ \A i \in 1 .. Len(edits') :
                        \E j \in 1 .. Len(edits) : edits[j] = edits'[i]
                /\ \A j \in 1 .. Len(edits) :
                        edits[j].key # EditKey(n) =>
                            \E i \in 1 .. Len(edits') : edits'[i] = edits[j]
                /\ \A i, k \in 1 .. Len(edits') :
                        i < k => KeyIndex(edits, edits'[i].key) < KeyIndex(edits, edits'[k].key)]_vars

\* a replacement has taken the first index and left the second entry, of another
\* region, as it was submitted
C3_Witness ==
    /\ Len(edits) = 2
    /\ edits[1].key = EditKey(3)
    /\ edits[2] = MkEdit(EditKey(2), 1, SpanD, <<"x">>)

ListSet(list) == {list[i] : i \in 1 .. Len(list)}

MapSet(map) == {map[k] : k \in DOMAIN map}

OnGrid(e) == e.rect.x0 % (Eps * Unit) = 0 /\ e.rect.y0 % (Eps * Unit) = 0

\* C4 (as stated): after every sequence of submissions with origins on a grid finer
\* than the tolerance, the linear-scan list and the mapping keyed by the quantized
\* origin hold the same set of edits, and two edits match by absolute difference
\* exactly when their keys are equal.
C4_ListEqualsKeyedMap ==
    /\ ListSet(edits) = MapSet(Keyed(submitted))
    /\ \A i, j \in 1 .. Len(submitted) :
          EditMatches(submitted[i], submitted[j]) <=> KeyOf(submitted[i]) = KeyOf(submitted[j])

\* C4 (amended): when every submitted origin is a multiple of the tolerance, the list
\* and the keyed mapping hold the same set of edits and matching by absolute
\* difference is equality of keys; on any grid, equal keys imply a match.
C4_GridEquivalence ==
    /\ \A i, j \in 1 .. Len(submitted) :
          KeyOf(submitted[i]) = KeyOf(submitted[j]) => EditMatches(submitted[i], submitted[j])
    /\ (\A i \in 1 .. Len(submitted) : OnGrid(submitted[i])) =>
          /\ ListSet(edits) = MapSet(Keyed(submitted))
          /\ \A i, j \in 1 .. Len(submitted) :
                EditMatches(submitted[i], submitted[j])
                    <=> KeyOf(submitted[i]) = KeyOf(submitted[j])

\* three submissions on the grid: two of one region, one a point to the right
C4_Witness ==
    /\ Len(submitted) = 3
    /\ \A i \in 1 .. 3 : OnGrid(submitted[i]) /\ submitted[i].page = 0
    /\ submitted[1].rect = submitted[3].rect
    /\ submitted[2].rect.x0 = submitted[1].rect.x0 + Eps * Unit
    /\ submitted[2].rect.y0 = submitted[1].rect.y0
    /\ Len(edits) = 2

(* ----------------------- claims about export --------------------------- *)

\* the original document, nothing laid over it
OriginalDocument == Compose([edits |-> <<>>])

\* C5 (as stated): an export invoked with an empty edit set completes and returns
\* content equivalent to the original document.
C5_ZeroEditExportReturnsOriginal ==
    [][(ExportButtonClick /\ Len(edits) = 0) =>
            \/ Len(exportReqs') > Len(exportReqs)
            \/ download' = OriginalDocument]_vars

\* C5 (amended): with an empty edit set the export button is disabled, so a click on it
\* invokes no export: no request is sent, nothing is downloaded or reported, the
\* exporting flag and the edit list stay as they are, and no content is returned.
C5_ZeroEditExportIsNoOp ==
    [][(ExportButtonClick /\ Len(edits) = 0) =>
            /\ exportLog' = "disabled"
            /\ UNCHANGED <<edits, exporting, exportReqs, download, toasts>>]_vars

\* the export button was clicked while nothing was being exported and found disabled
C5_Witness ==
    /\ exportLog = "disabled"
    /\ ~exporting
    /\ Len(edits) = 0
    /\ download = NoBlob

Failed(res) == res = NetworkError \/ ~res.ok

\* C6: export is atomic.  A request that settles with a response that is not OK (or
\* with none) starts no download and adds one error toast; one that settles OK hands
\* over the complete output, an overlay for every edit of the request; and the
\* downloaded file changes in no other step.
C6_ExportAtomic ==
    [][/\ \A i \in 1 .. Len(exportReqs), res \in AllResponses :
            ExportSettles(i, res) =>
                IF Failed(res)
                THEN /\ download' = download
                     /\ toasts' = Append(toasts, "error")
                     /\ ~exporting'
                ELSE /\ download' = Compose(exportReqs[i])
                     /\ Len(download'.overlays) = Len(exportReqs[i].edits)
                     /\ toasts' = Append(toasts, "success")
       /\ download' # download =>
            \E i \in 1 .. Len(exportReqs), res \in AllResponses :
                ExportSettles(i, res) /\ ~Failed(res)]_vars

\* an export failed on the server: an error toast, no file, the request gone
C6_Witness ==
    /\ exportLog = "failed"
    /\ toasts = <<"error">>
    /\ download = NoBlob
    /\ exportReqs = <<>>
    /\ ~exporting

\* the claim's own reading of a rect outside its page
OutsidePage(e) ==
    \/ e.rect.x1 > PageWidth(e.page)
    \/ e.rect.y1 > PageHeight(e.page)
    \/ e.rect.x0 < 0
    \/ e.rect.y0 < 0

HasOutsidePage(list) == \E k \in 1 .. Len(list) : OutsidePage(list[k])

\* C7: a request with an edit whose rect lies outside its page fails as a whole when it
\* settles: no file is downloaded (zero output bytes), none of its edits is exported,
\* and a file that was downloaded never holds an overlay outside its page.
C7_BoundsRejection ==
    /\ [][\A i \in 1 .. Len(exportReqs), res \in AllResponses :
            (ExportSettles(i, res) /\ HasOutsidePage(exportReqs[i].edits)) =>
                /\ download' = download
                /\ exportLog' = "failed"
                /\ toasts' = Append(toasts, "error")]_vars
    /\ [](download # NoBlob =>
            /\ DOMAIN download = {"document", "overlays"}
            /\ \A k \in 1 .. Len(download.overlays) : ~OutsidePage(download.overlays[k]))

\* the export of an edit within its page and one outside it has failed
C7_Witness ==
    /\ exportLog = "failed"
    /\ download = NoBlob
    /\ exportReqs = <<>>
    /\ Len(edits) = 2
    /\ ~OutsidePage(edits[1])
    /\ OutsidePage(edits[2])
    /\ editCounter = 2

PayloadFields == {"page", "rect", "original_text", "new_text", "font", "font_size", "color"}

C8_FailedTextQueryAbsorbed ==
    [][\A p \in Pages :
        PageTextSettles(p, FALSE) =>
            /\ (p = currentPage \/ pageText = NoText) => pageText' = NoText
            /\ (p # currentPage /\ pageText # NoText /\ pageText.page = currentPage) =>
                    pageText' = pageText
            /\ pageText' = NoText => (OfferedSpans' = {} /\ ~EditorShown')
            /\ UNCHANGED <<edits, toasts, currentPage, docInfo, pdfDoc>>]_vars

(* ------------------------- claims about fonts -------------------------- *)

FontNames == {s.font : s \in AllSpans} \cup RegisteredFonts \cup {"Unknown"}

\* the listed fonts loadFonts has passed already
VisitedFonts ==
    IF fontsPc = "listing" THEN {}
    ELSE {ListedFonts[i] : i \in 1 .. (Len(ListedFonts) - Len(fontQueue))}

\* the inline editor would add an edit when confirmed
WouldAddEdit ==
    /\ EditorShown
    /\ Trim(editValue) # <<>>
    /\ Trim(editValue) # editingSpan.text
    /\ editCounter < MaxSessionKeys

\* C9: font resolution is total.  Every font name resolves to a registered resource or
\* the default; a font whose load fails is passed over and the loop goes on with the
\* remaining names; loadedFonts holds only listed fonts already passed; the editor's
\* font family starts with the span's font exactly when that font is in loadedFonts
\* and is the sans-serif fallback otherwise; and whatever loadedFonts holds, an edit
\* can be confirmed (it carries the span's font) and an edit list can be exported.
C9_FontFallbackTotal ==
    /\ [][FontVisit(FALSE) =>
            /\ loadedFonts' = loadedFonts
            /\ fontQueue' = Tail(fontQueue)
            /\ (Tail(fontQueue) # <<>> => fontsPc' = "loading")]_vars
    /\ [][confirmEdit =>
            \/ edits' = edits
            \/ \E i \in 1 .. Len(edits') :
                    /\ edits'[i].key = EditKey(editCounter')
                    /\ edits'[i].font = editingSpan.font]_vars
    /\ [](/\ \A name \in FontNames :
                Resolve(name).resource \in RegisteredFonts \cup {DefaultFont}
          /\ loadedFonts \subseteq VisitedFonts
          /\ EditorShown =>
                /\ EditorFontFamily(editingSpan, loadedFonts)[Len(EditorFontFamily(editingSpan, loadedFonts))]
                        = "sans-serif"
                /\ (EditorFontFamily(editingSpan, loadedFonts)[1] = editingSpan.font)
                        <=> (editingSpan.font \in loadedFonts)
          /\ WouldAddEdit => ENABLED confirmEdit
          /\ (Len(edits) > 0 /\ ~exporting) => ENABLED (ExportButtonClick /\ exporting')
          /\ \A i \in 1 .. Len(exportReqs) :
                Violations(exportReqs[i]) = {} => BackendExport(exportReqs[i]).ok)

\* the first listed font failed to load and the second loaded; an edit of a span whose
\* font was never loaded was made and exported, rendered in the default resource
C9_Witness ==
    /\ fontsPc = "done"
    /\ loadedFonts = {"Roboto-Bold"}
    /\ Len(edits) = 1
    /\ edits[1].font = "Foo-Bold"
    /\ download # NoBlob
    /\ download.overlays[1].font = DefaultFont

(* -------------------------- claims about zoom -------------------------- *)

\* the edit confirmEdit hands to onAddEdit, field by field
ConfirmedEdit ==
    [key |-> EditKey(editCounter + 1), page |-> currentPage, rect |-> editingSpan.rect,
     original_text |-> editingSpan.text, new_text |-> Trim(editValue),
     font |-> editingSpan.font, font_size |-> editingSpan.size, color |-> editingSpan.color]

\* C11: rects stay in page points.  The edit confirmEdit adds has the rect of the
\* extracted span the editor was opened on, at every zoom level; a zoom step changes the
\* zoom and the on-screen boxes only, never the edit list, the span being edited, the
\* typed value or the page; and every rect in the edit list is the rect of an extracted span.
C11_RectsInPagePoints ==
    /\ [][confirmEdit =>
            \/ edits' = edits
            \/ /\ editingSpan \in AllSpans
               /\ edits' = AddEdit(edits, ConfirmedEdit)]_vars
    /\ [][(handleZoomIn \/ handleZoomOut) =>
            /\ UNCHANGED <<edits, editCounter, editingSpan, editValue, currentPage, pageText>>
            /\ \A span \in OfferedSpans :
                    /\ spanStyle(span).left = span.rect.x0 * zoom
                    /\ spanStyle(span)'.left = span.rect.x0 * zoom']_vars
    /\ [](\A i \in 1 .. Len(edits) : \E span \in AllSpans : edits[i].rect = span.rect)

\* an edit of span B made after zooming in twice
C11_Witness ==
    /\ zoom = ZoomInitial + 2
    /\ Len(edits) = 1
    /\ edits[1].rect = SpanB.rect

(* ---------------------- claims about determinism ----------------------- *)

\* the same ordered edits under the keys another history of the counter gives them
Rekey(list, n) ==
    [i \in 1 .. Len(list) |-> [list[i] EXCEPT !.key = EditKey(list[i].key[2] + n)]]

\* C12: an export is a function of the document and the ordered edits.  The request
\* posted for an edit list is the same under every numbering of the edit keys (whatever
\* _editCounter was, whatever was replaced or removed before), and the file a successful
\* export hands over is the composition of the request it answers and of nothing else.
C12_ExportDeterministic ==
    /\ [][(ExportButtonClick /\ exportReqs' # exportReqs) =>
            \A n \in 0 .. MaxKeys :
                exportReqs'[Len(exportReqs')] = ExportPayload(Rekey(edits, n))]_vars
    /\ [][((\E i \in 1 .. Len(exportReqs), res \in AllResponses : ExportSettles(i, res))
                /\ exportLog' = "downloaded") =>
            \E i \in 1 .. Len(exportReqs) : download' = Compose(exportReqs[i])]_vars

\* a second run is in flight for the edits of the first run, made anew under another
\* key: its output is the file the first run produced
C12_Witness ==
    /\ download # NoBlob
    /\ Len(exportReqs) = 1
    /\ Len(edits) = 1
    /\ edits[1].key = EditKey(2)
    /\ Compose(exportReqs[1]) = download

(* ------------------------ claims about auto-fit ------------------------ *)

FitDone == fit # Null /\ fit.pc = "done"

\* C13: auto-fit monotonicity.  For the text, size, step and floor of a finished
\* layout, the size chosen for any narrower rect is not larger than the size chosen.
C13_AutoFitMonotone ==
    [](FitDone =>
        /\ fit.size = ChosenSize(fit.in, fit.in.requested)
        /\ \A w \in FitWidths :
              w <= fit.in.width =>
                  ChosenSize([fit.in EXCEPT !.width = w], fit.in.requested) <= fit.size)

\* a wrapped layout finished above the floor for which a narrower rect chooses a
\* strictly smaller size
C13_Witness ==
    /\ FitDone
    /\ fit.in.wrap
    /\ fit.size > Floor
    /\ \E w \in FitWidths :
          /\ w < fit.in.width
          /\ ChosenSize([fit.in EXCEPT !.width = w], fit.in.requested) < fit.size

\* C14 as stated: the loop terminates and the chosen size is never above the requested
\* size and never below the floor, whatever the requested size
C14_AutoFitWithinFloor ==
    /\ [](FitDone => (fit.size <= fit.in.requested /\ fit.size >= Floor))
    /\ (fit # Null) ~> FitDone

\* C14 (amended): the loop terminates; it stops exactly when the text fits or the size
\* is at or below the floor and otherwise shrinks by the step; the chosen size is never
\* above the requested size; it is the requested size when that is at or below the
\* floor, is above the floor less one step otherwise, and is at or above the floor when
\* the requested size is the floor plus a whole number of steps.
C14_AutoFitTerminates ==
    /\ [](FitDone =>
            /\ fit.size <= fit.in.requested
            /\ fit.in.requested <= Floor => fit.size = fit.in.requested
            /\ fit.in.requested > Floor => fit.size > Floor - Step
            /\ (fit.in.requested >= Floor /\ (fit.in.requested - Floor) % Step = 0) =>
                    fit.size >= Floor)
    /\ [][FitMeasure =>
            /\ (fit'.pc = "done") <=> (Fits(fit.in, fit.size) \/ fit.size <= Floor)
            /\ fit'.pc = "done" => fit'.size = fit.size
            /\ fit'.pc # "done" => fit'.size = fit.size - Step]_vars
    /\ (fit # Null) ~> FitDone

\* a layout that began above the floor, off the step grid, and ended below the floor
\* with the text still overflowing
C14_Witness ==
    /\ FitDone
    /\ fit.in.requested > Floor
    /\ fit.size < Floor
    /\ fit.truncated

(* --------------------- claims about the font registry ------------------ *)

\* the resource of a name that a finished registration in progress would publish
FullyWritten(name) == [registry.staging[name] EXCEPT !.written = FontParts]

\* C15: registry reads are atomic with respect to writes.  A resolve(name) is possible
\* in every state of the registry, whatever is being written; it returns a usable
\* resource; and while a register of the name it resolves to is in progress it returns
\* the resource published before or the completely written new one.
C15_RegistryReadsAtomic ==
    /\ [](registry # Null => \A name \in RegistryNames : ENABLED ResolveRead(name))
    /\ [](registry # Null /\ registry.read # Null => Usable(registry.read.resource))
    /\ [][\A name \in WritableNames :
            (ResolveRead(name) /\ registry.staging[name] # Null) =>
                registry'.read.resource \in
                    {ResolveIn(registry.map, name), FullyWritten(name)}]_vars
    /\ [][\A name \in WritableNames :
            (RegisterWrite(name) \/ RegisterFail(name)) =>
                \A n \in RegistryNames :
                    ResolveIn(registry'.map, n) = ResolveIn(registry.map, n)]_vars

\* resolve("Roboto") has returned the resource published before, while a register of
\* "Roboto" with another file is half written
C15_Witness ==
    /\ registry # Null
    /\ registry.staging["Roboto"] # Null
    /\ registry.staging["Roboto"].file = 2
    /\ registry.staging["Roboto"].written = 1
    /\ registry.read # Null
    /\ registry.read.name = "Roboto"
    /\ registry.read.resource = [file |-> 1, written |-> FontParts]

(* -------------------- claims about the export pipeline ----------------- *)

CancelledBeforeSerialize ==
    pipeline # Null /\ pipeline.cancelledAt \notin {"none", "Serialize"}

SpanMatches(span) ==
    {i \in 1 .. Len(edits) :
        /\ edits[i].page = currentPage
        /\ Abs(edits[i].rect.x0 - span.rect.x0) < Eps * Unit
        /\ Abs(edits[i].rect.y0 - span.rect.y0) < Eps * Unit}

\* C17: a span is drawn as edited exactly when an edit of the current page has x0 and
\* y0 each less than a point from the span's, by the comparison handleAddEdit uses; a
\* click on it opens the editor on that span, filled with the new_text of such an edit
\* if there is one and with the span's own text if there is none, and changes neither
\* the edit list nor the toasts.
C17_SpanMatching ==
    /\ [](\A span \in OfferedSpans :
            /\ isEdited(span) <=> SpanMatches(span) # {}
            /\ isEdited(span) <=>
                  \E i \in 1 .. Len(edits) :
                      EditMatches(edits[i], MkEdit(EditKey(0), currentPage, span, <<>>)))
    /\ [][\A span \in OfferedSpans :
            handleSpanClick(span) =>
                /\ editingSpan' = span
                /\ EditorShown'
                /\ IF SpanMatches(span) # {}
                   THEN \E i \in SpanMatches(span) : editValue' = edits[i].new_text
                   ELSE editValue' = span.text
                /\ UNCHANGED <<edits, toasts, currentPage>>]_vars

\* the editor opened on span B is filled with the new text of the edit made on span A,
\* half a point to its left
C17_Witness ==
    /\ EditorShown
    /\ editingSpan = SpanB
    /\ Len(edits) = 1
    /\ edits[1].rect = SpanA.rect
    /\ currentPage = 0
    /\ editValue = edits[1].new_text

(* ------------------ claims about page-text responses ------------------- *)

\* no render is on its way to getPageText and no getPageText call is in flight
TextQuiescent == ~rendering /\ \A p \in Pages : textReqs[p] = 0

\* C18: once no page-text request is in flight, the displayed pageText is null or the
\* text of the current page.
C18_TextOfCurrentPage ==
    (pdfDoc # NoPdf /\ TextQuiescent) => (pageText = NoText \/ pageText.page = currentPage)

(* --------------------- claims about the page of an edit ---------------- *)

\* the edit has the rect and the original text of a span of its own page
FromSpanOfItsPage(e) ==
    /\ e.page \in Pages
    /\ \E i \in 1 .. Len(PageSpans(e.page)) :
          /\ e.rect = PageSpans(e.page)[i].rect
          /\ e.original_text = PageSpans(e.page)[i].text

\* C19: every edit confirmEdit adds carries the page whose text query returned the span
\* that supplies its rect and original_text.
C19_EditCarriesSpanPage ==
    \A i \in 1 .. Len(edits) : FromSpanOfItsPage(edits[i])

(* -------------------- claims about exports in flight ------------------- *)

\* C20: at most one export request is in flight.  exporting is true exactly while one
\* request is in flight, and a click on the export button while exporting starts none.
C20_OneExportInFlight ==
    /\ [](Len(exportReqs) <= 1 /\ (exporting <=> Len(exportReqs) = 1))
    /\ [][(ExportButtonClick /\ exporting) =>
            (exportReqs' = exportReqs /\ exporting')]_vars

\* the export button was clicked while a request was in flight, and no second one began
C20_Witness ==
    /\ exporting
    /\ Len(exportReqs) = 1
    /\ exportLog = "disabled"

(* ------------------- claims about the exporting flag ------------------- *)

\* C21: every export that starts ends with exporting = false once its request settles,
\* whether it succeeded or failed; after a failure the flag is not set, and with the
\* flag clear and an edit in the list a new export can start.
C21_ExportingCleared ==
    /\ exporting ~> ~exporting
    /\ [][(\E i \in 1 .. Len(exportReqs), res \in AllResponses : ExportSettles(i, res)) =>
            ~exporting']_vars
    /\ [](exportLog = "failed" => ~exporting)
    /\ []((~exporting /\ Len(edits) > 0) => ENABLED (ExportButtonClick /\ exporting'))

\* an export is in flight while the error toast of the failed one before it still shows
C21_Witness ==
    /\ exporting
    /\ Len(exportReqs) = 1
    /\ Len(toasts) = 1
    /\ toasts[1] = "error"

(* ------------------------ claims about edit keys ----------------------- *)

\* the indexes of the entries under a key
KeyHolders(key) == {i \in 1 .. Len(edits) : edits[i].key = key}

\* the list without its entry at an index
WithoutIndex(list, i) ==
    [j \in 1 .. (Len(list) - 1) |-> IF j < i THEN list[j] ELSE list[j + 1]]

\* C22: edit keys are unique.  No two entries of the edit list have the same key;
\* handleRemoveEdit(key) removes the one entry under the key and leaves every other
\* entry as it was, in place, and changes nothing when no entry has the key (a key
\* replaced or removed before).
C22_KeysUnique ==
    /\ [](\A i, j \in 1 .. Len(edits) : i # j => edits[i].key # edits[j].key)
    /\ [](\A n \in 1 .. editCounter : Cardinality(KeyHolders(<<"edit", n>>)) <= 1)
    /\ [][\A n \in 1 .. editCounter :
            handleRemoveEdit(<<"edit", n>>) =>
                IF KeyHolders(<<"edit", n>>) = {}
                THEN edits' = edits
                ELSE \E i \in KeyHolders(<<"edit", n>>) :
                        edits' = WithoutIndex(edits, i)]_vars

\* three keys were issued and only the second is left: the first was replaced or
\* removed and the third was removed
C22_Witness ==
    /\ editCounter = 3
    /\ Len(edits) = 1
    /\ edits[1].key = <<"edit", 2>>

(* --------------------- claims about the current page ------------------- *)

\* C23: once a document is loaded, 0 <= currentPage <= pageCount - 1 in every state,
\* each page action moves within that range (next up by one, previous down by one,
\* go-to-edit to the page of the edit), and every edit of the list has a page in
\* [0, pageCount).
C23_CurrentPageInRange ==
    /\ [](docInfo # NoDoc =>
            /\ 0 <= currentPage /\ currentPage <= docInfo.pageCount - 1
            /\ \A i \in 1 .. Len(edits) :
                  0 <= edits[i].page /\ edits[i].page < docInfo.pageCount)
    /\ [][handleNextPage => currentPage' = currentPage + 1]_vars
    /\ [][handlePrevPage => currentPage' = currentPage - 1]_vars
    /\ [][\A i \in 1 .. Len(edits) :
            handleGoToEdit(edits[i]) => currentPage' = edits[i].page]_vars

\* an edit was made on the last page and the first page is displayed again
C23_Witness ==
    /\ docInfo # NoDoc
    /\ Len(edits) = 1
    /\ edits[1].page = docInfo.pageCount - 1
    /\ currentPage = 0

(* ----------------------- claims about confirmEdit ---------------------- *)

\* the entered text without the blanks at its ends, read off the value itself
Entered ==
    LET inner == {i \in 1 .. Len(editValue) : editValue[i] # " "}
    IN  IF inner = {} THEN <<>>
        ELSE SubSeq(editValue,
                    CHOOSE i \in inner : \A j \in inner : i <= j,
                    CHOOSE i \in inner : \A j \in inner : j <= i)

\* C24: confirmEdit adds an edit exactly when the entered text, trimmed, is non-empty
\* and differs from the span's text, and the edit added carries that trimmed text;
\* otherwise the edit list, with any edit recorded for the span, is as before; either
\* way the editing state is cleared.  cancelEdit clears it and leaves the edit list.
C24_ConfirmAddsOnlyChanges ==
    /\ [][confirmEdit =>
            /\ IF Entered # <<>> /\ Entered # editingSpan.text
               THEN /\ edits' = AddEdit(edits, [ConfirmedEdit EXCEPT !.new_text = Entered])
                    /\ edits' # edits
               ELSE UNCHANGED <<edits, editCounter>>
            /\ editingSpan' = NoSpan
            /\ editValue' = <<>>]_vars
    /\ [][cancelEdit =>
            /\ UNCHANGED <<edits, editCounter>>
            /\ editingSpan' = NoSpan
            /\ editValue' = <<>>]_vars

\* the value " x " was confirmed for span A: the list holds its trimmed text; the
\* editor is open on span A again with the text of the span typed in
C24_Witness ==
    /\ Len(edits) = 1
    /\ edits[1].new_text = <<"x">>
    /\ edits[1].rect = SpanA.rect
    /\ EditorShown
    /\ editingSpan = SpanA
    /\ editValue = SpanA.text

====
